---------------------------- MODULE Spec2Model ----------------------------
(***************************************************************************)
(* Model of mainsecretkey.py: a FastAPI webhook receiver that checks a     *)
(* shared token, appends the received transactions to the module-level     *)
(* list received_transactions and serves read views of that list.          *)
(*                                                                         *)
(* Every route is an `async def` handler whose body contains no await:     *)
(* once the event loop enters a handler it runs to its return (or raise)   *)
(* before any other handler starts.  One action therefore models one whole *)
(* handler call, and concurrent requests are the interleavings of these    *)
(* actions.                                                                *)
(*                                                                         *)
(* Optional[T] values are sequences: None is <<>> and the value v is <<v>>.*)
(* Python dicts are records; a key a dict does not have is a field the     *)
(* record does not have.                                                   *)
(***************************************************************************)
EXTENDS Integers, Sequences, FiniteSets, TLC

VARIABLES
    WEBHOOK_TOKEN,          \* the secret read from the environment at import
    received_transactions,  \* the module-level list of stored dicts
    clock,                  \* the last value datetime.now() returned
    request,                \* the last request served: route, header and body
    resp,                   \* the response of the last request served
    logged,                 \* the log entries the last request wrote
    issued                  \* poc_ids acknowledged by POST /webhook/user-transactions, in order

vars == <<WEBHOOK_TOKEN, received_transactions, clock, request, resp, logged, issued>>

----------------------------------------------------------------------------
(* Bounds *)

MaxStore == 3        \* records the store may hold under Spec
MaxBatch == 2        \* payloads in one batch request
MaxClock == 1        \* datetime.now() never exceeds this many ticks
TicksPerSecond == 1  \* clock ticks in one second (strftime drops the fraction)
MaxStoreLong == 12   \* records the store may hold under SpecLong

(* Program constant: the slice received_transactions[-10:] *)
LastN == 10

----------------------------------------------------------------------------
(* Values *)

None == <<>>
Some(v) == <<v>>

\* os.getenv("WEBHOOK_TOKEN", ""): a string, "" when the variable is unset
Secrets == {"", "s1", "s2"}

\* the x-webhook-token header: absent, empty or any string
Headers == {None, Some(""), Some("s1"), Some("s2"), Some("S1")}

Usernames == {None, Some(""), Some("a"), Some("b")}

\* class UserTransaction(BaseModel): five optional fields
UserTransaction ==
    [authorizer_usrnbr : {None},
     creat_usrnbr      : {None},
     creat_time        : {None},
     data              : {None},
     usrname           : Usernames]

\* the payloads Spec submits: with and without a user name
Payloads == {t \in UserTransaction : t.usrname \in {None, Some("a")}}

\* the payloads SpecLong submits
UserTransactionLong == {t \in UserTransaction : t.usrname = Some("a")}

\* datetime.now().isoformat(): seconds and the fraction of the second
isoformat(t) == <<t \div TicksPerSecond, t % TicksPerSecond>>

\* datetime.now().strftime("%Y%m%d_%H%M%S"): whole seconds only
strftime(t) == t \div TicksPerSecond

\* the values the next datetime.now() can return after `last`: time does not run
\* backwards, and advances by at most `ticks` between two calls
NowAfter(last, ticks) == {t \in last..(last + ticks) : t <= MaxClock}

\* where an exception may be raised inside the try block of a submission
NoFault == "none"
Faults(faulty) == IF faulty THEN {NoFault, "before_append", "after_append"} ELSE {NoFault}

\* mutant: only None is falsy, the empty string counts as a value
Truthy_NotNone(x) == x # None

\* Python truthiness of an Optional[str]
Truthy(x) == x # None /\ x # Some("")

----------------------------------------------------------------------------
(* check_token *)

\* mutant: the header is compared before the secret is tested for emptiness
check_token_ComparesFirst(x_webhook_token) ==
    IF ~Truthy(x_webhook_token) \/ x_webhook_token[1] # WEBHOOK_TOKEN
    THEN [ok |-> FALSE, status |-> 401,
          detail |-> "Unauthorized",
          log |-> <<[level |-> "warning",
                     message |-> "[SECURITY] Unauthorized access attempt with token: %s",
                     arg |-> x_webhook_token]>>]
    ELSE IF WEBHOOK_TOKEN = ""
    THEN [ok |-> FALSE, status |-> 500,
          detail |-> "Server misconfiguration: WEBHOOK_TOKEN missing",
          log |-> <<[level |-> "error",
                     message |-> "[SECURITY] WEBHOOK_TOKEN not configured in environment",
                     arg |-> None]>>]
    ELSE [ok |-> TRUE, status |-> 200, detail |-> "", log |-> <<>>]

\* mutant: any non-empty header passes (the comparison with the secret is lost)
check_token_AnyNonEmptyHeader(x_webhook_token) ==
    IF WEBHOOK_TOKEN = ""
    THEN [ok |-> FALSE, status |-> 500,
          detail |-> "Server misconfiguration: WEBHOOK_TOKEN missing",
          log |-> <<[level |-> "error",
                     message |-> "[SECURITY] WEBHOOK_TOKEN not configured in environment",
                     arg |-> None]>>]
    ELSE IF ~Truthy(x_webhook_token)
    THEN [ok |-> FALSE, status |-> 401,
          detail |-> "Unauthorized",
          log |-> <<[level |-> "warning",
                     message |-> "[SECURITY] Unauthorized access attempt with token: %s",
                     arg |-> x_webhook_token]>>]
    ELSE [ok |-> TRUE, status |-> 200, detail |-> "", log |-> <<>>]

\* mutant: the 401 tells the caller which token was expected
check_token_DetailNamesSecret(x_webhook_token) ==
    IF WEBHOOK_TOKEN = ""
    THEN [ok |-> FALSE, status |-> 500,
          detail |-> "Server misconfiguration: WEBHOOK_TOKEN missing",
          log |-> <<[level |-> "error",
                     message |-> "[SECURITY] WEBHOOK_TOKEN not configured in environment",
                     arg |-> None]>>]
    ELSE IF ~Truthy(x_webhook_token) \/ x_webhook_token[1] # WEBHOOK_TOKEN
    THEN [ok |-> FALSE, status |-> 401,
          detail |-> "Unauthorized, expected " \o WEBHOOK_TOKEN,
          log |-> <<[level |-> "warning",
                     message |-> "[SECURITY] Unauthorized access attempt with token: %s",
                     arg |-> x_webhook_token]>>]
    ELSE [ok |-> TRUE, status |-> 200, detail |-> "", log |-> <<>>]

check_token(x_webhook_token) ==
    IF WEBHOOK_TOKEN = ""
    THEN [ok |-> FALSE, status |-> 500,
          detail |-> "Server misconfiguration: WEBHOOK_TOKEN missing",
          log |-> <<[level |-> "error",
                     message |-> "[SECURITY] WEBHOOK_TOKEN not configured in environment",
                     arg |-> None]>>]
    ELSE IF ~Truthy(x_webhook_token) \/ x_webhook_token[1] # WEBHOOK_TOKEN
    THEN [ok |-> FALSE, status |-> 401,
          detail |-> "Unauthorized",
          log |-> <<[level |-> "warning",
                     message |-> "[SECURITY] Unauthorized access attempt with token: %s",
                     arg |-> x_webhook_token]>>]
    ELSE [ok |-> TRUE, status |-> 200, detail |-> "", log |-> <<>>]

\* a request: the route, the x-webhook-token header and the payloads of the body
Request(route, x_webhook_token, payloads) ==
    [route |-> route, x_webhook_token |-> x_webhook_token, payloads |-> payloads]

\* the HTTPException check_token raises, as the response of the route
\* mutant: the rejection tells how many records are stored
Rejected_WithCount(route, chk) ==
    /\ resp' = [route |-> route, status |-> chk.status,
                body |-> [detail |-> chk.detail,
                          total_count |-> Len(received_transactions)]]
    /\ logged' = chk.log
    /\ UNCHANGED <<WEBHOOK_TOKEN, received_transactions, clock, issued>>

Rejected(route, chk) ==
    /\ resp' = [route |-> route, status |-> chk.status, body |-> [detail |-> chk.detail]]
    /\ logged' = chk.log
    /\ UNCHANGED <<WEBHOOK_TOKEN, received_transactions, clock, issued>>

----------------------------------------------------------------------------
(* Initial state: the module has been imported *)

Init ==
    /\ WEBHOOK_TOKEN \in Secrets
    /\ received_transactions = <<>>
    /\ clock = 0
    /\ request = Request("none", None, <<>>)
    /\ resp = [route |-> "none", status |-> 0, body |-> [detail |-> ""]]
    /\ logged = <<>>
    /\ issued = <<>>

----------------------------------------------------------------------------
(* GET / *)

root(now) ==
    /\ request' = Request("root", None, <<>>)
    /\ clock' = now
    /\ resp' = [route |-> "root", status |-> 200,
                body |-> [status |-> "running",
                          timestamp |-> isoformat(now),
                          total_received |-> Len(received_transactions)]]
    /\ logged' = <<>>
    /\ UNCHANGED <<WEBHOOK_TOKEN, received_transactions, issued>>

(* GET /health *)

\* mutant: the health route checks the token like the protected routes
health_check_Protected(now) ==
    LET chk == check_token(None)
    IN  /\ request' = Request("health", None, <<>>)
        /\ IF ~chk.ok THEN Rejected("health", chk)
           ELSE /\ clock' = now
                /\ resp' = [route |-> "health", status |-> 200,
                            body |-> [status |-> "healthy",
                                      timestamp |-> isoformat(now),
                                      total_transactions |-> Len(received_transactions)]]
                /\ logged' = <<>>
                /\ UNCHANGED <<WEBHOOK_TOKEN, received_transactions, issued>>

health_check(now) ==
    /\ request' = Request("health", None, <<>>)
    /\ clock' = now
    /\ resp' = [route |-> "health", status |-> 200,
                body |-> [status |-> "healthy",
                          timestamp |-> isoformat(now),
                          total_transactions |-> Len(received_transactions)]]
    /\ logged' = <<>>
    /\ UNCHANGED <<WEBHOOK_TOKEN, received_transactions, issued>>

----------------------------------------------------------------------------
(* POST /webhook/user-transactions *)

\* mutant: poc_id is the length of the list, without the + 1
SingleDict_LenNoPlusOne(transaction, now) ==
    [authorizer_usrnbr |-> transaction.authorizer_usrnbr,
     creat_usrnbr      |-> transaction.creat_usrnbr,
     creat_time        |-> transaction.creat_time,
     data              |-> transaction.data,
     usrname           |-> transaction.usrname,
     received_at       |-> isoformat(now),
     poc_id            |-> Len(received_transactions)]

\* mutant: poc_id counts the single submissions acknowledged, not the list
SingleDict_CountsSinglesOnly(transaction, now) ==
    [authorizer_usrnbr |-> transaction.authorizer_usrnbr,
     creat_usrnbr      |-> transaction.creat_usrnbr,
     creat_time        |-> transaction.creat_time,
     data              |-> transaction.data,
     usrname           |-> transaction.usrname,
     received_at       |-> isoformat(now),
     poc_id            |-> Len(issued) + 1]

\* mutant: a single submission tags its record with a batch_id too
SingleDict_WithBatchId(transaction, now) ==
    [authorizer_usrnbr |-> transaction.authorizer_usrnbr,
     creat_usrnbr      |-> transaction.creat_usrnbr,
     creat_time        |-> transaction.creat_time,
     data              |-> transaction.data,
     usrname           |-> transaction.usrname,
     received_at       |-> isoformat(now),
     batch_id          |-> strftime(now),
     poc_id            |-> Len(received_transactions) + 1]

\* transaction.dict() with received_at and poc_id set (lines 64-66)
SingleDict(transaction, now) ==
    [authorizer_usrnbr |-> transaction.authorizer_usrnbr,
     creat_usrnbr      |-> transaction.creat_usrnbr,
     creat_time        |-> transaction.creat_time,
     data              |-> transaction.data,
     usrname           |-> transaction.usrname,
     received_at       |-> isoformat(now),
     poc_id            |-> Len(received_transactions) + 1]

\* mutant: check_token is called after the record has been appended
receive_user_transaction_ChecksAfterAppend(transaction, x_webhook_token, now, fault) ==
    LET chk == check_token(x_webhook_token)
        transaction_dict == SingleDict(transaction, now)
    IN  /\ request' = Request("single", x_webhook_token, <<transaction>>)
        /\ received_transactions' = Append(received_transactions, transaction_dict)
        /\ clock' = now
        /\ UNCHANGED WEBHOOK_TOKEN
        /\ IF ~chk.ok
           THEN /\ resp' = [route |-> "single", status |-> chk.status,
                            body |-> [detail |-> chk.detail]]
                /\ logged' = chk.log
                /\ UNCHANGED issued
           ELSE /\ resp' = [route |-> "single", status |-> 200,
                            body |-> [status |-> "success",
                                      poc_id |-> transaction_dict.poc_id,
                                      user |-> transaction.usrname,
                                      received_at |-> transaction_dict.received_at]]
                /\ logged' = <<[level |-> "info",
                                message |-> "[POC V2] Transaction received",
                                arg |-> transaction.usrname]>>
                /\ issued' = Append(issued, transaction_dict.poc_id)

\* mutant: a submission that raises after the append removes its record
receive_user_transaction_RollsBack(transaction, x_webhook_token, now, fault) ==
    LET chk == check_token(x_webhook_token)
        transaction_dict == SingleDict(transaction, now)
        error == [route |-> "single", status |-> 500,
                  body |-> [detail |-> "Error processing transaction: ", cause |-> fault]]
        errlog == <<[level |-> "error",
                     message |-> "[POC V2 ERROR] Failed to process transaction: ",
                     arg |-> Some(fault)]>>
    IN  /\ request' = Request("single", x_webhook_token, <<transaction>>)
        /\ IF ~chk.ok THEN Rejected("single", chk)
           ELSE IF fault = "before_append" THEN
               /\ resp' = error
               /\ logged' = errlog
               /\ UNCHANGED <<WEBHOOK_TOKEN, received_transactions, clock, issued>>
           ELSE IF fault = "after_append" THEN
               /\ received_transactions' = received_transactions
               /\ clock' = now
               /\ resp' = error
               /\ logged' = errlog
               /\ UNCHANGED <<WEBHOOK_TOKEN, issued>>
           ELSE
               /\ received_transactions' = Append(received_transactions, transaction_dict)
               /\ clock' = now
               /\ resp' = [route |-> "single", status |-> 200,
                           body |-> [status |-> "success",
                                     poc_id |-> transaction_dict.poc_id,
                                     user |-> transaction.usrname,
                                     received_at |-> transaction_dict.received_at]]
               /\ logged' = <<[level |-> "info",
                               message |-> "[POC V2] Transaction received",
                               arg |-> transaction.usrname]>>
               /\ issued' = Append(issued, transaction_dict.poc_id)
               /\ UNCHANGED WEBHOOK_TOKEN

receive_user_transaction(transaction, x_webhook_token, now, fault) ==
    LET chk == check_token(x_webhook_token)
        transaction_dict == SingleDict(transaction, now)
        error == [route |-> "single", status |-> 500,
                  body |-> [detail |-> "Error processing transaction: ", cause |-> fault]]
        errlog == <<[level |-> "error",
                     message |-> "[POC V2 ERROR] Failed to process transaction: ",
                     arg |-> Some(fault)]>>
    IN  /\ request' = Request("single", x_webhook_token, <<transaction>>)
        /\ IF ~chk.ok THEN Rejected("single", chk)
           ELSE IF fault = "before_append" THEN
               /\ resp' = error
               /\ logged' = errlog
               /\ UNCHANGED <<WEBHOOK_TOKEN, received_transactions, clock, issued>>
           ELSE IF fault = "after_append" THEN
               /\ received_transactions' = Append(received_transactions, transaction_dict)
               /\ clock' = now
               /\ resp' = error
               /\ logged' = errlog
               /\ UNCHANGED <<WEBHOOK_TOKEN, issued>>
           ELSE
               /\ received_transactions' = Append(received_transactions, transaction_dict)
               /\ clock' = now
               /\ resp' = [route |-> "single", status |-> 200,
                           body |-> [status |-> "success",
                                     poc_id |-> transaction_dict.poc_id,
                                     user |-> transaction.usrname,
                                     received_at |-> transaction_dict.received_at]]
               /\ logged' = <<[level |-> "info",
                               message |-> "[POC V2] Transaction received",
                               arg |-> transaction.usrname]>>
               /\ issued' = Append(issued, transaction_dict.poc_id)
               /\ UNCHANGED WEBHOOK_TOKEN

----------------------------------------------------------------------------
(* POST /webhook/user-transactions/batch *)

\* List[UserTransaction] of at most MaxBatch payloads
Batches(payloads) == UNION {[1..k -> payloads] : k \in 0..MaxBatch}

\* the values the k calls of datetime.now() in the loop return, after now0
LoopNows(now0, k, ticks) ==
    {nows \in [1..k -> NowAfter(now0, k * ticks)] :
        \A i \in 1..k : nows[i] \in NowAfter(IF i = 1 THEN now0 ELSE nows[i-1], ticks)}

\* no exception, or one raised in iteration `at`, before or after its append
BatchFaults(k, faulty) ==
    {[at |-> 0, phase |-> NoFault]} \cup
    [at : 1..k, phase : Faults(faulty) \ {NoFault}]

\* mutant: poc_id is computed from the length the list had when the call began
BatchDict_StaleLength(store, transaction, batch_id, now) ==
    [authorizer_usrnbr |-> transaction.authorizer_usrnbr,
     creat_usrnbr      |-> transaction.creat_usrnbr,
     creat_time        |-> transaction.creat_time,
     data              |-> transaction.data,
     usrname           |-> transaction.usrname,
     received_at       |-> isoformat(now),
     batch_id          |-> batch_id,
     poc_id            |-> Len(received_transactions) + 1]

\* mutant: the batch path leaves received_at unset
BatchDict_NullTimestamp(store, transaction, batch_id, now) ==
    [authorizer_usrnbr |-> transaction.authorizer_usrnbr,
     creat_usrnbr      |-> transaction.creat_usrnbr,
     creat_time        |-> transaction.creat_time,
     data              |-> transaction.data,
     usrname           |-> transaction.usrname,
     received_at       |-> None,
     batch_id          |-> batch_id,
     poc_id            |-> Len(store) + 1]

\* transaction.dict() with received_at, batch_id and poc_id set (lines 91-94)
BatchDict(store, transaction, batch_id, now) ==
    [authorizer_usrnbr |-> transaction.authorizer_usrnbr,
     creat_usrnbr      |-> transaction.creat_usrnbr,
     creat_time        |-> transaction.creat_time,
     data              |-> transaction.data,
     usrname           |-> transaction.usrname,
     received_at       |-> isoformat(now),
     batch_id          |-> batch_id,
     poc_id            |-> Len(store) + 1]

\* mutant: the batch starts from a fresh list instead of the stored one
RECURSIVE BatchLoop_FreshList(_, _, _, _, _, _)
BatchLoop_FreshList(store, transactions, nows, batch_id, i, n) ==
    IF i > n THEN store
    ELSE LET list == IF i = 1 THEN <<>> ELSE store
         IN  BatchLoop_FreshList(
                 Append(list, BatchDict(list, transactions[i], batch_id, nows[i])),
                 transactions, nows, batch_id, i + 1, n)

\* mutant: the loop skips the first payload
RECURSIVE BatchLoop_SkipsFirst(_, _, _, _, _, _)
BatchLoop_SkipsFirst(store, transactions, nows, batch_id, i, n) ==
    IF i > n THEN store
    ELSE BatchLoop_SkipsFirst(
             IF i = 1 THEN store
             ELSE Append(store, BatchDict(store, transactions[i], batch_id, nows[i])),
             transactions, nows, batch_id, i + 1, n)

\* mutant: the loop puts each record at the front of the list
RECURSIVE BatchLoop_Prepends(_, _, _, _, _, _)
BatchLoop_Prepends(store, transactions, nows, batch_id, i, n) ==
    IF i > n THEN store
    ELSE BatchLoop_Prepends(
             <<BatchDict(store, transactions[i], batch_id, nows[i])>> \o store,
             transactions, nows, batch_id, i + 1, n)

\* mutant: the loop walks the payloads from the last to the first
RECURSIVE BatchLoop_Reversed(_, _, _, _, _, _)
BatchLoop_Reversed(store, transactions, nows, batch_id, i, n) ==
    IF i > n THEN store
    ELSE BatchLoop_Reversed(
             Append(store, BatchDict(store, transactions[n + 1 - i], batch_id, nows[i])),
             transactions, nows, batch_id, i + 1, n)

\* the list after iterations i..n of the for loop (lines 90-97)
RECURSIVE BatchLoop(_, _, _, _, _, _)
BatchLoop(store, transactions, nows, batch_id, i, n) ==
    IF i > n THEN store
    ELSE BatchLoop(Append(store, BatchDict(store, transactions[i], batch_id, nows[i])),
                   transactions, nows, batch_id, i + 1, n)

\* mutant: a batch that raises removes the records it had appended
receive_batch_transactions_RollsBack(transactions, x_webhook_token, now0, nows, fault) ==
    LET chk == check_token(x_webhook_token)
        batch_id == strftime(now0)
        completed == IF fault.phase = NoFault THEN Len(transactions) ELSE fault.at - 1
        store == IF fault.phase = NoFault
                 THEN BatchLoop(received_transactions, transactions, nows, batch_id, 1,
                                Len(transactions))
                 ELSE received_transactions
        infos == [i \in 1..completed |->
                    [level |-> "info",
                     message |-> "[POC V2 BATCH] Transaction received",
                     arg |-> transactions[i].usrname]]
    IN  /\ request' = Request("batch", x_webhook_token, transactions)
        /\ IF ~chk.ok THEN Rejected("batch", chk)
           ELSE
               /\ received_transactions' = store
               /\ clock' = IF Len(transactions) = 0 THEN now0 ELSE nows[Len(transactions)]
               /\ UNCHANGED <<WEBHOOK_TOKEN, issued>>
               /\ IF fault.phase = NoFault
                  THEN /\ resp' = [route |-> "batch", status |-> 200,
                                   body |-> [status |-> "success",
                                             message |->
                                                 [text |-> "Batch of %d transactions received successfully",
                                                  received_count |-> completed],
                                             batch_id |-> batch_id,
                                             total_received |-> Len(store)]]
                       /\ logged' = infos
                  ELSE /\ resp' = [route |-> "batch", status |-> 500,
                                   body |-> [detail |-> "Error processing batch: ",
                                             cause |-> fault.phase]]
                       /\ logged' = Append(infos,
                                       [level |-> "error",
                                        message |-> "[POC V2 ERROR] Failed to process batch: ",
                                        arg |-> Some(fault.phase)])

receive_batch_transactions(transactions, x_webhook_token, now0, nows, fault) ==
    LET chk == check_token(x_webhook_token)
        batch_id == strftime(now0)
        \* iterations whose append ran
        appended == IF fault.phase = NoFault THEN Len(transactions)
                    ELSE IF fault.phase = "before_append" THEN fault.at - 1
                    ELSE fault.at
        \* iterations that reached their logger.info
        completed == IF fault.phase = NoFault THEN Len(transactions) ELSE fault.at - 1
        store == BatchLoop(received_transactions, transactions, nows, batch_id, 1, appended)
        infos == [i \in 1..completed |->
                    [level |-> "info",
                     message |-> "[POC V2 BATCH] Transaction received",
                     arg |-> transactions[i].usrname]]
    IN  /\ request' = Request("batch", x_webhook_token, transactions)
        /\ IF ~chk.ok THEN Rejected("batch", chk)
           ELSE
               /\ received_transactions' = store
               /\ clock' = IF appended = 0 THEN now0 ELSE nows[appended]
               /\ UNCHANGED <<WEBHOOK_TOKEN, issued>>
               /\ IF fault.phase = NoFault
                  THEN /\ resp' = [route |-> "batch", status |-> 200,
                                   body |-> [status |-> "success",
                                             message |->
                                                 [text |-> "Batch of %d transactions received successfully",
                                                  received_count |-> completed],
                                             batch_id |-> batch_id,
                                             total_received |-> Len(store)]]
                       /\ logged' = infos
                  ELSE /\ resp' = [route |-> "batch", status |-> 500,
                                   body |-> [detail |-> "Error processing batch: ",
                                             cause |-> fault.phase]]
                       /\ logged' = Append(infos,
                                       [level |-> "error",
                                        message |-> "[POC V2 ERROR] Failed to process batch: ",
                                        arg |-> Some(fault.phase)])

----------------------------------------------------------------------------
(* GET /webhook/user-transactions *)

\* mutant: the slice s[:n], the first n records
LastSlice_Head(s, n) ==
    SubSeq(s, 1, IF Len(s) < n THEN Len(s) ELSE n)

\* the Python slice s[-n:]
LastSlice(s, n) ==
    LET start == IF Len(s) - n < 0 THEN 0 ELSE Len(s) - n
    IN  SubSeq(s, start + 1, Len(s))

get_received_transactions(x_webhook_token, now) ==
    LET chk == check_token(x_webhook_token)
    IN  /\ request' = Request("list", x_webhook_token, <<>>)
        /\ IF ~chk.ok THEN Rejected("list", chk)
           ELSE
               /\ clock' = now
               /\ resp' = [route |-> "list", status |-> 200,
                           body |-> [total_count |-> Len(received_transactions),
                                     last_10_transactions |->
                                         IF received_transactions # <<>>
                                         THEN LastSlice(received_transactions, LastN)
                                         ELSE <<>>,
                                     last_updated |-> isoformat(now),
                                     poc_status |-> "active"]]
               /\ logged' = <<>>
               /\ UNCHANGED <<WEBHOOK_TOKEN, received_transactions, issued>>

----------------------------------------------------------------------------
(* GET /poc/stats *)

\* mutant: the route waits for data until some record has a user name
poc_statistics_WaitsForUsers(x_webhook_token) ==
    LET chk == check_token(x_webhook_token)
        users == {received_transactions[i].usrname[1] :
                     i \in {j \in 1..Len(received_transactions) :
                               Truthy(received_transactions[j].usrname)}}
    IN  /\ request' = Request("stats", x_webhook_token, <<>>)
        /\ IF ~chk.ok THEN Rejected("stats", chk)
           ELSE
               /\ resp' = IF users = {}
                          THEN [route |-> "stats", status |-> 200,
                                body |-> [message |-> "No transactions received yet",
                                          total_count |-> 0,
                                          status |-> "waiting_for_data"]]
                          ELSE [route |-> "stats", status |-> 200,
                                body |-> [total_transactions |-> Len(received_transactions),
                                          unique_users |-> Cardinality(users),
                                          user_list |-> users,
                                          first_transaction |-> received_transactions[1].received_at,
                                          last_transaction |->
                                              received_transactions[Len(received_transactions)].received_at,
                                          poc_status |-> "collecting_data"]]
               /\ logged' = <<>>
               /\ UNCHANGED <<WEBHOOK_TOKEN, received_transactions, clock, issued>>

\* list(set(users)): the order of the list is not determined, so it is kept as a set
poc_statistics(x_webhook_token) ==
    LET chk == check_token(x_webhook_token)
        users == {received_transactions[i].usrname[1] :
                     i \in {j \in 1..Len(received_transactions) :
                               Truthy(received_transactions[j].usrname)}}
    IN  /\ request' = Request("stats", x_webhook_token, <<>>)
        /\ IF ~chk.ok THEN Rejected("stats", chk)
           ELSE
               /\ resp' = IF received_transactions = <<>>
                          THEN [route |-> "stats", status |-> 200,
                                body |-> [message |-> "No transactions received yet",
                                          total_count |-> 0,
                                          status |-> "waiting_for_data"]]
                          ELSE [route |-> "stats", status |-> 200,
                                body |-> [total_transactions |-> Len(received_transactions),
                                          unique_users |-> Cardinality(users),
                                          user_list |-> users,
                                          first_transaction |-> received_transactions[1].received_at,
                                          last_transaction |->
                                              received_transactions[Len(received_transactions)].received_at,
                                          poc_status |-> "collecting_data"]]
               /\ logged' = <<>>
               /\ UNCHANGED <<WEBHOOK_TOKEN, received_transactions, clock, issued>>

----------------------------------------------------------------------------
(* The service: requests arrive in any order, with any header and payload,  *)
(* under any secret; a submission may raise inside its try block.  The      *)
(* clock stands still.                                                      *)

Next ==
    \/ \E now \in NowAfter(clock, 0) : root(now)
    \/ \E now \in NowAfter(clock, 0) : health_check(now)
    \/ \E transaction \in Payloads, x \in Headers, now \in NowAfter(clock, 0),
          fault \in Faults(TRUE) :
          /\ Len(received_transactions) < MaxStore
          /\ receive_user_transaction(transaction, x, now, fault)
    \/ \E transactions \in Batches(Payloads) :
          /\ Len(received_transactions) + Len(transactions) <= MaxStore
          /\ \E x \in Headers, now0 \in NowAfter(clock, 0) :
               \E nows \in LoopNows(now0, Len(transactions), 0),
                  fault \in BatchFaults(Len(transactions), TRUE) :
                   receive_batch_transactions(transactions, x, now0, nows, fault)
    \/ \E x \in Headers, now \in NowAfter(clock, 0) : get_received_transactions(x, now)
    \/ \E x \in Headers : poc_statistics(x)

Spec == Init /\ [][Next]_vars

----------------------------------------------------------------------------
(* A long-running service with the secret configured: the store outgrows    *)
(* the last-10 window.  One payload, no exception and a clock standing      *)
(* still, so that the store can reach MaxStoreLong records.                 *)

HeadersLong == {None, Some("s1")}

InitLong == Init /\ WEBHOOK_TOKEN = "s1"

NextLong ==
    \/ \E now \in NowAfter(clock, 0) : root(now)
    \/ \E now \in NowAfter(clock, 0) : health_check(now)
    \/ \E transaction \in UserTransactionLong, x \in HeadersLong :
          /\ Len(received_transactions) < MaxStoreLong
          /\ receive_user_transaction(transaction, x, clock, NoFault)
    \/ \E transactions \in Batches(UserTransactionLong) :
          /\ Len(received_transactions) + Len(transactions) <= MaxStoreLong
          /\ \E x \in HeadersLong :
                receive_batch_transactions(transactions, x, clock,
                                           [i \in 1..Len(transactions) |-> clock],
                                           [at |-> 0, phase |-> NoFault])
    \/ \E x \in HeadersLong : get_received_transactions(x, clock)
    \/ \E x \in HeadersLong : poc_statistics(x)

SpecLong == InitLong /\ [][NextLong]_vars

----------------------------------------------------------------------------
(* The service with the secret configured and a running clock: between two  *)
(* readings of datetime.now() the time stands still or advances by a tick.  *)
(* No submission raises.                                                    *)

NextClock ==
    \/ \E now \in NowAfter(clock, 1) : root(now)
    \/ \E now \in NowAfter(clock, 1) : health_check(now)
    \/ \E transaction \in Payloads, x \in HeadersLong, now \in NowAfter(clock, 1) :
          /\ Len(received_transactions) < MaxStore
          /\ receive_user_transaction(transaction, x, now, NoFault)
    \/ \E transactions \in Batches(Payloads) :
          /\ Len(received_transactions) + Len(transactions) <= MaxStore
          /\ \E x \in HeadersLong, now0 \in NowAfter(clock, 1) :
               \E nows \in LoopNows(now0, Len(transactions), 1) :
                   receive_batch_transactions(transactions, x, now0, nows,
                                              [at |-> 0, phase |-> NoFault])
    \/ \E x \in HeadersLong, now \in NowAfter(clock, 1) : get_received_transactions(x, now)
    \/ \E x \in HeadersLong : poc_statistics(x)

SpecClock == InitLong /\ [][NextClock]_vars

----------------------------------------------------------------------------
(* The service with the secret configured, submitting every user name:      *)
(* absent, empty, "a" and "b".  No submission raises and the clock stands   *)
(* still.                                                                   *)

NextStats ==
    \/ \E now \in NowAfter(clock, 0) : root(now)
    \/ \E now \in NowAfter(clock, 0) : health_check(now)
    \/ \E transaction \in UserTransaction, x \in HeadersLong :
          /\ Len(received_transactions) < MaxStore
          /\ receive_user_transaction(transaction, x, clock, NoFault)
    \/ \E transactions \in Batches(UserTransaction) :
          /\ Len(received_transactions) + Len(transactions) <= MaxStore
          /\ \E x \in HeadersLong :
                receive_batch_transactions(transactions, x, clock,
                                           [i \in 1..Len(transactions) |-> clock],
                                           [at |-> 0, phase |-> NoFault])
    \/ \E x \in HeadersLong : get_received_transactions(x, clock)
    \/ \E x \in HeadersLong : poc_statistics(x)

SpecStats == InitLong /\ [][NextStats]_vars

----------------------------------------------------------------------------
(* The service under any secret, with callers that also send a mistyped     *)
(* secret: the secret followed by one more character.  A submission may     *)
(* raise inside its try block; one payload, and the clock stands still.     *)

HeadersAuth == Headers \cup {Some("s1x")}

NextAuth ==
    \/ \E now \in NowAfter(clock, 0) : root(now)
    \/ \E now \in NowAfter(clock, 0) : health_check(now)
    \/ \E transaction \in UserTransactionLong, x \in HeadersAuth, fault \in Faults(TRUE) :
          /\ Len(received_transactions) < MaxStore
          /\ receive_user_transaction(transaction, x, clock, fault)
    \/ \E transactions \in Batches(UserTransactionLong) :
          /\ Len(received_transactions) + Len(transactions) <= MaxStore
          /\ \E x \in HeadersAuth, fault \in BatchFaults(Len(transactions), TRUE) :
                receive_batch_transactions(transactions, x, clock,
                                           [i \in 1..Len(transactions) |-> clock], fault)
    \/ \E x \in HeadersAuth : get_received_transactions(x, clock)
    \/ \E x \in HeadersAuth : poc_statistics(x)

SpecAuth == Init /\ [][NextAuth]_vars

----------------------------------------------------------------------------
(* Vocabulary of the properties.  Every step of the service is one whole    *)
(* handler call: request' is the request it served and resp' the response   *)
(* it returned.                                                             *)

ProtectedRoutes == {"single", "batch", "list", "stats"}
MutatingRoutes == {"single", "batch"}

Misconfigured == [detail |-> "Server misconfiguration: WEBHOOK_TOKEN missing"]
Unauthorized == [detail |-> "Unauthorized"]

\* the response is a failure of the token check
TokenCheckFailed(r) ==
    \/ r.status = 500 /\ r.body = Misconfigured
    \/ r.status = 401 /\ r.body = Unauthorized

Range(s) == {s[i] : i \in DOMAIN s}

IsPrefix(s, t) == Len(s) <= Len(t) /\ SubSeq(t, 1, Len(s)) = s

\* the records a step appended
Appended == SubSeq(received_transactions', Len(received_transactions) + 1,
                   Len(received_transactions'))

Min(a, b) == IF a < b THEN a ELSE b

----------------------------------------------------------------------------
\* C1: the sequence ids acknowledged to single submissions are pairwise
\* distinct, and whenever the N acknowledged single submissions are all that
\* has been stored since the empty store, the ids returned are exactly 1..N.
C1_SingleIdsAreExactly1toN ==
    /\ \A i, j \in DOMAIN issued : i # j => issued[i] # issued[j]
    /\ Len(issued) = Len(received_transactions) => Range(issued) = 1..Len(issued)

C1_ThreeSinglesAcknowledged ==
    /\ Len(issued) = 3
    /\ Len(received_transactions) = 3
    /\ request.route = "single" /\ resp.status = 200

\* C2: the record at position i of the store carries sequence id i, whatever
\* mix of single and batch submissions (failed ones included) built the store.
C2_PositionIsSequenceId ==
    \A i \in 1..Len(received_transactions) : received_transactions[i].poc_id = i

C2_SingleAfterBatchStored ==
    /\ Len(received_transactions) = 3
    /\ "batch_id" \in DOMAIN received_transactions[1]
    /\ "batch_id" \in DOMAIN received_transactions[2]
    /\ "batch_id" \notin DOMAIN received_transactions[3]

\* C3: every step of every route leaves the store it found as a prefix of the
\* store it leaves: no stored record is changed, reordered or removed.
C3_AppendOnly ==
    [][IsPrefix(received_transactions, received_transactions')]_vars

C3_ReadAfterBatchOverRecords ==
    /\ request.route = "list" /\ resp.status = 200
    /\ Len(received_transactions) = 3
    /\ "batch_id" \in DOMAIN received_transactions[3]
    /\ "batch_id" \notin DOMAIN received_transactions[1]

\* C4: with no secret configured, every request to a protected route is
\* answered 500 "Server misconfiguration", whatever header it carried; it is
\* never answered 401 or with success, and nothing is ever stored.
C4_EmptySecretAlways500 ==
    WEBHOOK_TOKEN = "" =>
        /\ request.route \in ProtectedRoutes =>
               resp.status = 500 /\ resp.body = Misconfigured
        /\ received_transactions = <<>>

C4_CorrectLookingHeaderGets500 ==
    /\ WEBHOOK_TOKEN = ""
    /\ request.route = "stats"
    /\ request.x_webhook_token = Some("s1")
    /\ resp.status = 500

\* C5: with a secret configured, a request to a protected route passes the
\* token check exactly when its header equals the secret; every other request
\* (header absent, empty or different) is answered 401 "Unauthorized".
C5_PassIffHeaderEqualsSecret ==
    (WEBHOOK_TOKEN # "" /\ request.route \in ProtectedRoutes) =>
        /\ request.x_webhook_token = Some(WEBHOOK_TOKEN) <=> ~TokenCheckFailed(resp)
        /\ request.x_webhook_token # Some(WEBHOOK_TOKEN) =>
               resp.status = 401 /\ resp.body = Unauthorized

C5_NearMissHeaderRejected ==
    /\ WEBHOOK_TOKEN = "s1"
    /\ request.route = "list"
    /\ request.x_webhook_token = Some("S1")
    /\ resp.status = 401

\* C6: a single or batch submission that fails the token check (500
\* misconfiguration or 401) leaves the store as it found it, whatever its
\* payloads and however many of them.
C6_RejectedSubmissionStoresNothing ==
    [][(request'.route \in MutatingRoutes /\ TokenCheckFailed(resp'))
          => received_transactions' = received_transactions]_vars

C6_BatchOfTwoRejected ==
    /\ request.route = "batch"
    /\ Len(request.payloads) = 2
    /\ resp.status = 401
    /\ Len(received_transactions) = 1

\* C7: a health request can be served in every state and, with no header and
\* under every secret, is answered 200 with status "healthy" and
\* total_transactions equal to the number of stored records.
C7_HealthAlwaysSucceeds ==
    /\ ENABLED health_check(clock)
    /\ request.route = "health" =>
          /\ resp.status = 200
          /\ resp.body.status = "healthy"
          /\ resp.body.total_transactions = Len(received_transactions)

C7_HealthyWithoutSecret ==
    /\ WEBHOOK_TOKEN = ""
    /\ request.route = "health"
    /\ request.x_webhook_token = None
    /\ resp.status = 200

\* C8: a batch submission of K payloads that is answered with success has
\* appended exactly K records, with K distinct sequence ids and all with the
\* batch_id of the acknowledgement, and the total count has grown by exactly
\* K; for K = 0 the store is unchanged and received_count is 0.
C8_BatchAppendsExactlyK ==
    [][(request'.route = "batch" /\ resp'.status = 200) =>
          LET K == Len(request'.payloads) IN
          /\ IsPrefix(received_transactions, received_transactions')
          /\ Len(received_transactions') = Len(received_transactions) + K
          /\ Cardinality({Appended[i].poc_id : i \in 1..Len(Appended)}) = K
          /\ \A i \in 1..Len(Appended) :
                /\ "batch_id" \in DOMAIN Appended[i]
                /\ Appended[i].batch_id = resp'.body.batch_id
          /\ resp'.body.message.received_count = K
          /\ resp'.body.total_received = Len(received_transactions) + K
          /\ K = 0 => received_transactions' = received_transactions]_vars

C8_BatchOfTwoAfterSingle ==
    /\ request.route = "batch"
    /\ resp.status = 200
    /\ Len(request.payloads) = 2
    /\ Len(received_transactions) = 3
    /\ resp.body.total_received = 3

\* C9: a single submission that is answered with success has appended exactly
\* one record, and the poc_id of the acknowledgement is the poc_id stored on
\* that record: the number of records before the append plus one.
C9_SingleAppendsOneAndAcksItsId ==
    [][(request'.route = "single" /\ resp'.status = 200) =>
          /\ IsPrefix(received_transactions, received_transactions')
          /\ Len(received_transactions') = Len(received_transactions) + 1
          /\ Appended[1].poc_id = resp'.body.poc_id
          /\ resp'.body.poc_id = Len(received_transactions) + 1
          /\ Appended[1].usrname = request'.payloads[1].usrname
          /\ resp'.body.received_at = Appended[1].received_at]_vars

C9_SecondSubmissionAcknowledgedWith2 ==
    /\ request.route = "single"
    /\ resp.status = 200
    /\ resp.body.poc_id = 2
    /\ Len(issued) = 2
    /\ Len(received_transactions) = 2

\* C10: an authenticated list request returns total_count equal to the number
\* of stored records and last_10_transactions equal to the last min(10, count)
\* stored records in append order; the empty sequence when nothing is stored.
C10_ListReturnsLastTenSuffix ==
    (request.route = "list" /\ resp.status = 200) =>
        LET count == Len(received_transactions)
            n == Min(10, count)
            last == resp.body.last_10_transactions
        IN  /\ resp.body.total_count = count
            /\ Len(last) = n
            /\ \A i \in 1..n : last[i] = received_transactions[count - n + i]

C10_ListOverTwelveRecords ==
    /\ request.route = "list"
    /\ resp.status = 200
    /\ Len(received_transactions) = 12
    /\ Len(resp.body.last_10_transactions) = 10
    /\ resp.body.last_10_transactions[1].poc_id = 3

\* C11: over a non-empty store an authenticated statistics request returns
\* user_list as the set of the distinct non-empty usrname values of the stored
\* records (absent and empty ones contribute nothing), unique_users as the
\* size of that set and total_transactions as the number of stored records.
C11_UserListIsDistinctNonEmptyNames ==
    (request.route = "stats" /\ resp.status = 200 /\ received_transactions # <<>>) =>
        LET stored == {received_transactions[i].usrname : i \in DOMAIN received_transactions}
            names == {"", "a", "b"} \cup resp.body.user_list
        IN  /\ \A u \in names : u \in resp.body.user_list <=> (u # "" /\ Some(u) \in stored)
            /\ resp.body.unique_users = Cardinality(resp.body.user_list)
            /\ resp.body.total_transactions = Len(received_transactions)

C11_NamesAAB ==
    /\ request.route = "stats" /\ resp.status = 200
    /\ Len(received_transactions) = 3
    /\ received_transactions[1].usrname = Some("a")
    /\ received_transactions[2].usrname = Some("a")
    /\ received_transactions[3].usrname = Some("b")
    /\ resp.body.unique_users = 2
    /\ resp.body.user_list = {"a", "b"}

C11_EmptyNameNotCounted ==
    /\ request.route = "stats" /\ resp.status = 200
    /\ Len(received_transactions) = 3
    /\ received_transactions[1].usrname = Some("")
    /\ received_transactions[2].usrname = None
    /\ received_transactions[3].usrname = Some("b")
    /\ resp.body.unique_users = 1

\* C12: an authenticated statistics request reports "waiting_for_data" with
\* total_count 0 exactly when the store is empty, and "collecting_data"
\* exactly when the store holds at least one record, also when no stored
\* record has a user name.
C12_StatusFollowsEmptiness ==
    (request.route = "stats" /\ resp.status = 200) =>
        LET waiting == /\ "status" \in DOMAIN resp.body
                       /\ resp.body.status = "waiting_for_data"
                       /\ resp.body.total_count = 0
            collecting == /\ "poc_status" \in DOMAIN resp.body
                          /\ resp.body.poc_status = "collecting_data"
        IN  /\ waiting <=> received_transactions = <<>>
            /\ collecting <=> received_transactions # <<>>

C12_CollectingWithoutAnyUserName ==
    /\ request.route = "stats" /\ resp.status = 200
    /\ Len(received_transactions) = 2
    /\ \A i \in 1..2 : received_transactions[i].usrname = None
    /\ resp.body.poc_status = "collecting_data"

----------------------------------------------------------------------------
(* Text that contains a secret: the secret with something before or after   *)
(* it.                                                                      *)

Affixes == {"", "x", "Bearer ", "Unauthorized, expected "}

Contains(text, secret) == \E p \in Affixes, q \in Affixes : text = p \o secret \o q

\* the fields of an error body are strings
BodyContains(body, secret) == \E f \in DOMAIN body : Contains(body[f], secret)

\* a log entry is its message with the argument filled in
EntryContains(entry, secret) ==
    \/ Contains(entry.message, secret)
    \/ entry.arg # None /\ Contains(entry.arg[1], secret)

ErrorResponse(r) == r.status \in {401, 500}

\* C13 as claimed: neither the body of an error response nor a log entry
\* written on a rejected request contains the configured secret.
C13_NoErrorOrLogContainsSecret ==
    (WEBHOOK_TOKEN # "" /\ ErrorResponse(resp)) =>
        /\ ~BodyContains(resp.body, WEBHOOK_TOKEN)
        /\ TokenCheckFailed(resp) =>
               \A i \in DOMAIN logged : ~EntryContains(logged[i], WEBHOOK_TOKEN)

\* C13, amended: no error body contains the configured secret, and the body
\* of a rejected request is the same for every configured secret (401
\* "Unauthorized"; 500 "Server misconfiguration" when none is configured).
\* The log entry of a 401 holds the presented header verbatim: it never
\* equals the secret.
C13_ErrorBodiesIndependentOfSecret ==
    /\ (WEBHOOK_TOKEN # "" /\ ErrorResponse(resp)) => ~BodyContains(resp.body, WEBHOOK_TOKEN)
    /\ (request.route \in ProtectedRoutes /\ TokenCheckFailed(resp)) =>
          /\ resp.body = IF WEBHOOK_TOKEN = "" THEN Misconfigured ELSE Unauthorized
          /\ resp.status = IF WEBHOOK_TOKEN = "" THEN 500 ELSE 401
          /\ resp.status = 401 =>
                /\ logged[1].arg = request.x_webhook_token
                /\ logged[1].arg # Some(WEBHOOK_TOKEN)

C13_MistypedSecretLogged ==
    /\ WEBHOOK_TOKEN = "s1"
    /\ request.x_webhook_token = Some("s1x")
    /\ resp.status = 401
    /\ resp.body = Unauthorized
    /\ logged[1].arg = Some("s1x")

----------------------------------------------------------------------------
(* Submissions that raise.  Under Spec the clock stands still, so a step is *)
(* the batch (single) submission of request' that raised as `fault` says    *)
(* when it satisfies the handler's relation for that fault.                 *)

RaisingBatchStep(fault) ==
    /\ fault.phase # NoFault
    /\ request'.route = "batch"
    /\ ~TokenCheckFailed(resp')
    /\ receive_batch_transactions(request'.payloads, request'.x_webhook_token, clock,
                                  [i \in 1..Len(request'.payloads) |-> clock], fault)

RaisingSingleStep(fault) ==
    /\ fault # NoFault
    /\ request'.route = "single"
    /\ ~TokenCheckFailed(resp')
    /\ receive_user_transaction(request'.payloads[1], request'.x_webhook_token, clock, fault)

ProcessingError(r) == r.status = 500 /\ "cause" \in DOMAIN r.body

\* the records a batch step appended are payloads 1..n of the request, with
\* the ids that follow the stored ones and with a batch_id
BatchPrefixAppended(n) ==
    /\ IsPrefix(received_transactions, received_transactions')
    /\ Len(Appended) = n
    /\ \A i \in 1..n :
          /\ Appended[i].poc_id = Len(received_transactions) + i
          /\ "batch_id" \in DOMAIN Appended[i]
          /\ Appended[i].usrname = request'.payloads[i].usrname

\* C14 as claimed: when the processing of payload j of an authenticated batch
\* raises, the call is answered 500 and exactly the first j-1 payloads are
\* stored: none from position j onward.
C14_RaisingBatchKeepsExactlyJMinus1 ==
    [][\A fault \in BatchFaults(Len(request'.payloads), TRUE) :
          RaisingBatchStep(fault) =>
              ProcessingError(resp') /\ BatchPrefixAppended(fault.at - 1)]_vars

\* C14, amended: when the processing of payload j of an authenticated batch
\* raises, the call is answered 500 and the records appended before the
\* failure stay stored with their ids and batch_id (no rollback): the first
\* j-1 when the failure precedes the append of payload j, the first j when it
\* follows it.  No payload after position j is appended.
C14_RaisingBatchKeepsAppendedRecords ==
    [][\A fault \in BatchFaults(Len(request'.payloads), TRUE) :
          RaisingBatchStep(fault) =>
              /\ ProcessingError(resp')
              /\ BatchPrefixAppended(IF fault.phase = "before_append"
                                     THEN fault.at - 1 ELSE fault.at)]_vars

C14_SecondPayloadRaisedBeforeAppend ==
    /\ request.route = "batch"
    /\ Len(request.payloads) = 2
    /\ ProcessingError(resp)
    /\ resp.body.cause = "before_append"
    /\ Len(logged) = 2
    /\ Len(received_transactions) = 1
    /\ "batch_id" \in DOMAIN received_transactions[1]

\* C15 as claimed: a single submission answered with a processing error has
\* left the store unchanged, wherever in the try block it raised.
C15_ProcessingErrorMeansNotStored ==
    [][(request'.route = "single" /\ ProcessingError(resp'))
          => received_transactions' = received_transactions]_vars

\* C15, amended: a single submission that raises inside the try block is
\* answered 500 and leaves the store either unchanged (it raised before the
\* append) or extended by one complete record carrying the next poc_id (it
\* raised after the append): the 500 does not tell the caller which.
C15_RaisingSingleIsAllOrNothing ==
    [][\A fault \in Faults(TRUE) :
          RaisingSingleStep(fault) =>
              /\ ProcessingError(resp')
              /\ IsPrefix(received_transactions, received_transactions')
              /\ IF fault = "before_append"
                 THEN received_transactions' = received_transactions
                 ELSE /\ Len(Appended) = 1
                      /\ DOMAIN Appended[1] =
                            {"authorizer_usrnbr", "creat_usrnbr", "creat_time", "data",
                             "usrname", "received_at", "poc_id"}
                      /\ Appended[1].poc_id = Len(received_transactions) + 1
                      /\ Appended[1].usrname = request'.payloads[1].usrname]_vars

C15_ErrorAnsweredButRecordStored ==
    /\ request.route = "single"
    /\ ProcessingError(resp)
    /\ resp.body.cause = "after_append"
    /\ Len(received_transactions) = 1
    /\ received_transactions[1].usrname = request.payloads[1].usrname
    /\ issued = <<>>

----------------------------------------------------------------------------
(* Stored records: their two assigned fields, their order in time, their    *)
(* place in a batch and their batch_id.                                     *)

\* poc_id and received_at are both present and set
Populated(rec) ==
    /\ {"poc_id", "received_at"} \subseteq DOMAIN rec
    /\ rec.poc_id \in Nat \ {0}
    /\ rec.received_at # None
    /\ Len(rec.received_at) = 2

\* C16: in every reachable state every stored record has its poc_id and its
\* received_at populated, whatever the caller supplied, and so has every
\* record and timestamp a read returns.
C16_StoredRecordsArePopulated ==
    /\ \A i \in DOMAIN received_transactions : Populated(received_transactions[i])
    /\ (resp.route = "list" /\ resp.status = 200) =>
          \A i \in DOMAIN resp.body.last_10_transactions :
              Populated(resp.body.last_10_transactions[i])
    /\ (resp.route = "stats" /\ resp.status = 200 /\ received_transactions # <<>>) =>
          /\ resp.body.first_transaction # None
          /\ resp.body.last_transaction # None

C16_ListShowsSingleAndBatchRecords ==
    /\ resp.route = "list"
    /\ resp.status = 200
    /\ Len(resp.body.last_10_transactions) = 3
    /\ \E i \in 1..3 : "batch_id" \in DOMAIN resp.body.last_10_transactions[i]
    /\ \E i \in 1..3 : "batch_id" \notin DOMAIN resp.body.last_10_transactions[i]
    /\ \E i \in 1..3 : resp.body.last_10_transactions[i].usrname = None

\* isoformat values in the order of the times they were taken from
TimeLeq(a, b) == a[1] < b[1] \/ (a[1] = b[1] /\ a[2] <= b[2])

\* C17: with a clock that never goes backwards, the received_at values of the
\* stored records are non-decreasing in poc_id order, for every interleaving
\* of single and batch submissions; ties are allowed.
C17_ReceivedAtNonDecreasing ==
    \A i, j \in DOMAIN received_transactions :
        i <= j =>
            /\ received_transactions[i].poc_id <= received_transactions[j].poc_id
            /\ TimeLeq(received_transactions[i].received_at,
                       received_transactions[j].received_at)

C17_TieThenLaterRecord ==
    /\ Len(received_transactions) = 3
    /\ received_transactions[1].received_at = received_transactions[2].received_at
    /\ received_transactions[2].received_at # received_transactions[3].received_at
    /\ "batch_id" \notin DOMAIN received_transactions[1]
    /\ "batch_id" \in DOMAIN received_transactions[2]

\* C18: a list or stats request that fails the token check is answered from
\* the configured secret and the header alone: the status and the body are
\* the same whatever the store holds, and whether the check fails does not
\* depend on the store either.
C18_RejectedReadIndependentOfStore ==
    request.route \in {"list", "stats"} =>
        /\ resp.status = 200 <=>
              (WEBHOOK_TOKEN # "" /\ request.x_webhook_token = Some(WEBHOOK_TOKEN))
        /\ resp.status # 200 =>
              resp = [route |-> request.route,
                      status |-> IF WEBHOOK_TOKEN = "" THEN 500 ELSE 401,
                      body |-> IF WEBHOOK_TOKEN = "" THEN Misconfigured ELSE Unauthorized]

C18_StatsRejectedOverNamedRecords ==
    /\ request.route = "stats"
    /\ resp.status = 401
    /\ Len(received_transactions) = 2
    /\ received_transactions[1].usrname = Some("a")

\* C19: the records of one batch call are stored in the order of its
\* payloads at consecutive positions: with c records stored before the call,
\* payload i is stored at position c + i with poc_id c + i, and nothing else
\* is stored between them.
C19_BatchStoredInInputOrder ==
    [][request'.route = "batch" =>
          /\ IsPrefix(received_transactions, received_transactions')
          /\ Len(Appended) <= Len(request'.payloads)
          /\ resp'.status = 200 => Len(Appended) = Len(request'.payloads)
          /\ \A i \in 1..Len(Appended) :
                /\ Appended[i].poc_id = Len(received_transactions) + i
                /\ Appended[i].usrname = request'.payloads[i].usrname
                /\ "batch_id" \in DOMAIN Appended[i]]_vars

C19_TwoDifferentPayloadsAfterOneRecord ==
    /\ request.route = "batch"
    /\ resp.status = 200
    /\ Len(request.payloads) = 2
    /\ request.payloads[1].usrname # request.payloads[2].usrname
    /\ Len(received_transactions) = 3
    /\ received_transactions[2].usrname = request.payloads[1].usrname
    /\ received_transactions[3].usrname = request.payloads[2].usrname
    /\ received_transactions[3].poc_id = 3

\* a record gets a batch_id exactly when a batch call stores it, and the
\* records of one call share the batch_id the call answers with
BatchIdMarksBatchPath ==
    /\ request'.route = "single" =>
          \A i \in 1..Len(Appended) : "batch_id" \notin DOMAIN Appended[i]
    /\ request'.route = "batch" =>
          \A i \in 1..Len(Appended) :
              /\ "batch_id" \in DOMAIN Appended[i]
              /\ resp'.status = 200 => Appended[i].batch_id = resp'.body.batch_id
    /\ request'.route \notin MutatingRoutes => Appended = <<>>

\* the stored records that carry the batch_id of the records this step appends
SameBatchIdStored ==
    {i \in DOMAIN received_transactions :
        /\ "batch_id" \in DOMAIN received_transactions[i]
        /\ Appended # <<>>
        /\ "batch_id" \in DOMAIN Appended[1]
        /\ received_transactions[i].batch_id = Appended[1].batch_id}

\* C20 as claimed: a record carries a batch_id iff a batch call ingested it,
\* and a batch call never stores records under a batch_id that records of an
\* earlier call carry.
C20_BatchIdIdentifiesTheCall ==
    [][BatchIdMarksBatchPath /\ SameBatchIdStored = {}]_vars

\* C20, amended: a record carries a batch_id iff a batch call ingested it, and
\* all records of one call carry the same batch_id; the batch_id is the
\* second in which the call started, so records of two batch calls carry the
\* same batch_id exactly when both calls started in the same second.
C20_BatchIdIsTheSecondOfTheCall ==
    [][/\ BatchIdMarksBatchPath
       /\ (request'.route = "batch" /\ resp'.status = 200) =>
             /\ strftime(clock) <= resp'.body.batch_id
             /\ resp'.body.batch_id <= strftime(clock')
       /\ SameBatchIdStored # {} => Appended[1].batch_id = strftime(clock)]_vars

C20_TwoCallsShareOneBatchId ==
    /\ request.route = "batch"
    /\ resp.status = 200
    /\ Len(request.payloads) = 1
    /\ Len(received_transactions) = 3
    /\ "batch_id" \notin DOMAIN received_transactions[1]
    /\ "batch_id" \in DOMAIN received_transactions[2]
    /\ received_transactions[3].batch_id = received_transactions[2].batch_id
    /\ received_transactions[3].batch_id = resp.body.batch_id

=============================================================================
